---- MODULE Spec2Model ----
(***************************************************************************)
(* Model of src/Sketch.js (kandinsky-painter): the animation loop          *)
(* frame(now), the lifecycle API pause/resume/toggle/destroy, the resize   *)
(* handler, the click handler, and the per-shape kinematic updates         *)
(* (parallax drift, velocity drift, toroidal wrap, rotation).              *)
(*                                                                         *)
(* Units (fixed point, all integers):                                      *)
(*   positions, radii, velocities   milli-pixels  (1 px   = 1000)          *)
(*   timestamps last/now/wall       milliseconds                           *)
(*   the animation clock `time`     microseconds  (1 s    = 1000000)       *)
(*   rotations and speeds           milli-radians                          *)
(*   trig arguments                 centi-radians, trig values per mille   *)
(* The code only ever uses differences of timestamps (now - last), so the  *)
(* origin of performance.now() is taken to be the instant the model starts *)
(* observing the program.                                                  *)
(***************************************************************************)
EXTENDS Integers, Sequences, FiniteSets, TLC

VARIABLES
    width, height,      \* let width, height (Sketch.js:32), milli-px
    shapes,             \* const shapes (Sketch.js:65), in array order
    strokes,            \* const strokes (Sketch.js:66)
    groups,             \* const groups (Sketch.js:67)
    running,            \* let running (Sketch.js:371)
    last,               \* let last (Sketch.js:372), ms
    time,               \* let time (Sketch.js:373), microseconds
    pending,            \* number of armed requestAnimationFrame callbacks
    wall,               \* the value performance.now() returns now, ms
    frameStart,         \* << >>, or <<ts>> once the browser has begun a frame whose
                        \* callbacks have not run yet: ts is the timestamp they receive
    apiPresent,         \* window.__kandinskyPainter is defined
    attached,           \* canvas.parentNode is non-null
    resizeListening,    \* the resize listener is registered on window
    frameLog,           \* what the most recent frame invocation did, in program order
    calls,              \* the current run of consecutive pause() calls, or of
                        \* consecutive toggle() calls (its last two), each with the
                        \* running flag it found; any other call ends the run
    frames              \* number of RUNNING frames drawn so far

vars == <<width, height, shapes, strokes, groups, running, last, time, pending,
          wall, frameStart, apiPresent, attached, resizeListening,
          frameLog, calls, frames>>

----------------------------------------------------------------------------
(* Bounds of the model *)

\* performance.now() is followed up to this many ms after the start
MaxWall == 45
\* at most this many RUNNING frames are drawn
MaxFrames == 2

\* amounts of time that pass between two events, ms
Steps == {20, 45}
\* <<window.innerWidth, window.innerHeight>> pairs read by resize(), px
InnerSizes == {<<280, 180>>, <<400, 300>>}

----------------------------------------------------------------------------
(* Program constants *)

FrameCap == 40          \* Math.min(40, now - last)
ClockPerMs == 1000      \* dt * 0.001 seconds, in microseconds
MinWidth == 300         \* Math.max(300, window.innerWidth)
MinHeight == 200        \* Math.max(200, window.innerHeight)
TAU == 628              \* Math.PI * 2, centi-radians

Min(a, b) == IF a < b THEN a ELSE b
Max(a, b) == IF a > b THEN a ELSE b

----------------------------------------------------------------------------
(* Math.sin / Math.cos in fixed point: argument in centi-radians, value    *)
(* per mille (Bhaskara's rational approximation on each half period).      *)

HalfSine(x) ==
    (16 * x * ((TAU \div 2) - x) * 1000)
        \div (5 * (TAU \div 2) * (TAU \div 2) - 4 * x * ((TAU \div 2) - x))

Sin(a) ==
    LET x == a % TAU
    IN  IF x <= TAU \div 2 THEN HalfSine(x) ELSE 0 - HalfSine(x - TAU \div 2)

Cos(a) == Sin(a + TAU \div 4)

----------------------------------------------------------------------------
(* Scene records.  Every record carries every field; a field a kind does   *)
(* not have is 0.                                                          *)

Circle(id, x, y, r, vx, vy) ==
    [id |-> id, type |-> "circle", x |-> x, y |-> y, r |-> r,
     vx |-> vx, vy |-> vy, rotation |-> 0, rotationSpeed |-> 0]

Triangle(id, x, y, rot, rs) ==
    [id |-> id, type |-> "triangle", x |-> x, y |-> y, r |-> 0,
     vx |-> 0, vy |-> 0, rotation |-> rot, rotationSpeed |-> rs]

Rect(id, x, y, rot, rs) ==
    [id |-> id, type |-> "rect", x |-> x, y |-> y, r |-> 0,
     vx |-> 0, vy |-> 0, rotation |-> rot, rotationSpeed |-> rs]

Stroke(id, n) == [id |-> id, npoints |-> n]

Group(id, rot, speed) == [id |-> id, rotation |-> rot, speed |-> speed]

\* The scene right after construction on a 400 x 300 surface: every field
\* inside the range its generator samples from, circles first, then
\* triangles, then rects (the order of the populate loops).
FreshScene ==
    [time   |-> 0,
     shapes |-> << Circle(1, 320005, 100000, 20000, -30, 29),
                   Circle(2, 321000, 221000, 20000, 10, -10),
                   Triangle(3, 200000, 100005, 1000, 7),
                   Rect(4, 150000, 60000, 2000, -5) >>]

\* The scene after a minute of animation: circles have drifted to the
\* padded edges of the surface, and the array is in the order the previous
\* frame's sort left it.
DriftedScene ==
    [time   |-> 60000000,
     shapes |-> << Circle(2, 200000, -19990, 20000, 12, -30),
                   Rect(4, 150000, 60000, 3500, -5),
                   Triangle(3, 200000, 100005, 4000, 7),
                   Circle(1, -19995, 150000, 20000, -30, 5) >>]

Scenes == {FreshScene, DriftedScene}

InitStrokes == << Stroke(1, 4), Stroke(2, 9) >>
InitGroups == << Group(1, 500, 3), Group(2, 6000, -2) >>

----------------------------------------------------------------------------
(* resize() *)

\* px to milli-px
SurfaceWidth(iw) == Max(MinWidth, iw) * 1000
SurfaceHeight(ih) == Max(MinHeight, ih) * 1000

----------------------------------------------------------------------------
(* drawBackgroundTexture(): number of hatch lines drawn *)

HatchStep(w, h) == Max(20, Min(60, ((w + h) \div 1000) \div 60))

HatchLines(w, h) ==
    LET span == (w + h) \div 1000
        step == HatchStep(w, h)
    IN  (span + step - 1) \div step

----------------------------------------------------------------------------
(* shapes.sort((a, b) => (a.y || 0) - (b.y || 0)): Array.prototype.sort is *)
(* stable and ascending under the comparator.                              *)

\* (s.y || 0) is s.y: y is always a number, and (0 || 0) is 0
SortKey(s) == s.y

\* the index element i of the array has after the sort: behind every
\* element with a smaller key, and behind the equal ones that preceded it
SortedIndex(s, i) ==
    1 + Cardinality({j \in DOMAIN s :
                        \/ SortKey(s[j]) < SortKey(s[i])
                        \/ (SortKey(s[j]) = SortKey(s[i]) /\ j < i)})

\* a sort that leaves the array as it is
SortByYNone(s) == s

SortByY(s) ==
    [k \in DOMAIN s |-> s[CHOOSE i \in DOMAIN s : SortedIndex(s, i) = k]]

----------------------------------------------------------------------------
(* Per-shape updates of one frame *)

\* const par = 1 + ((s.y / height) - 0.5) * 0.08, per mille
Par(y, h) == 1000 + ((((y * 1000) \div h) - 500) * 80) \div 1000

\* Math.sin(...) * 0.02 * par, milli-px
Parallax(trig, par) == (trig * par * 20) \div 1000000

\* the two if-statements of drawCircle for one axis
WrapWrong(v, r, dim) ==
    IF v < 0 - r THEN dim + r
    ELSE IF v >= dim THEN 0 - r
    ELSE v

Wrap(v, r, dim) ==
    LET v1 == IF v < 0 - r THEN dim + r ELSE v
    IN  IF v1 > dim + r THEN 0 - r ELSE v1

\* frame's circle branch followed by drawCircle's position update; the
\* fields xMoved, yMoved are the coordinates just before the wrap checks.
MoveCircle(s, t, w, h) ==
    LET par == Par(s.y, h)
        x1 == s.x + Parallax(Sin(t \div 50000 + (s.x + s.y) \div 10000), par)
        y1 == s.y + Parallax(Cos(((t \div 1000) * 14) \div 1000
                                   + (x1 - s.y) \div 10000), par)
        x2 == x1 + s.vx
        y2 == y1 + s.vy
    IN  [moved |-> [s EXCEPT !.x = Wrap(x2, s.r, w), !.y = Wrap(y2, s.r, h)],
         xMoved |-> x2, yMoved |-> y2]

\* frame's triangle branch: (time * 0.18 + s.phase || 0) is (NaN || 0) = 0
\* because triangles have no phase, so x receives sin(0) * 0.01 * par = 0;
\* drawTriangle then advances the rotation.
MoveTriangle(s, t, w, h) ==
    LET x1 == s.x + (Sin(0) * Par(s.y, h) * 10) \div 1000000
    IN  [moved |-> [s EXCEPT !.x = x1, !.rotation = s.rotation + s.rotationSpeed],
         xMoved |-> x1, yMoved |-> s.y]

\* drawRect advances the rotation
MoveRect(s, t, w, h) ==
    [moved |-> [s EXCEPT !.rotation = s.rotation + s.rotationSpeed],
     xMoved |-> s.x, yMoved |-> s.y]

MoveShape(s, t, w, h) ==
    IF s.type = "circle" THEN MoveCircle(s, t, w, h)
    ELSE IF s.type = "triangle" THEN MoveTriangle(s, t, w, h)
    ELSE MoveRect(s, t, w, h)

\* drawGroup: g.rotation += g.speed
MoveGroup(g) == [g EXCEPT !.rotation = g.rotation + g.speed]

----------------------------------------------------------------------------
(* The log of one frame invocation *)

Entry(layer, id, x, y, xMoved, yMoved, ySort, n) ==
    [layer |-> layer, id |-> id, x |-> x, y |-> y,
     xMoved |-> xMoved, yMoved |-> yMoved, ySort |-> ySort, n |-> n]

Plain(layer) == Entry(layer, 0, 0, 0, 0, 0, 0, 0)

RafEntry == Plain("raf")

GroupEntries(gs) == [i \in DOMAIN gs |-> Entry("group", gs[i].id, 0, 0, 0, 0, 0, 0)]

StrokeEntries(ss) ==
    [i \in DOMAIN ss |-> Entry("stroke", ss[i].id, 0, 0, 0, 0, 0, ss[i].npoints)]

\* sorted: the shapes as the sort left them; res: the MoveShape results
ShapeEntries(sorted, res) ==
    [i \in DOMAIN sorted |->
        Entry("shape", sorted[i].id, res[i].moved.x, res[i].moved.y,
              res[i].xMoved, res[i].yMoved, sorted[i].y, 0)]

\* the draw commands of a RUNNING frame, in program order
DrawSequenceSwapped(w, h, gs, ss, sorted, res) ==
    << Plain("clear"), Plain("wash"),
       Entry("hatch", 0, 0, 0, 0, 0, 0, HatchLines(w, h)), Plain("ring") >>
    \o StrokeEntries(ss)
    \o GroupEntries(gs)
    \o ShapeEntries(sorted, res)
    \o << Plain("accent"), Plain("signature") >>

DrawSequence(w, h, gs, ss, sorted, res) ==
    << Plain("clear"), Plain("wash"),
       Entry("hatch", 0, 0, 0, 0, 0, 0, HatchLines(w, h)), Plain("ring") >>
    \o GroupEntries(gs)
    \o StrokeEntries(ss)
    \o ShapeEntries(sorted, res)
    \o << Plain("accent"), Plain("signature") >>

RECURSIVE Rafs(_)
Rafs(n) == IF n = 0 THEN << >> ELSE << RafEntry >> \o Rafs(n - 1)

----------------------------------------------------------------------------
(* frame(now) *)

\* const dt = Math.min(40, now - last)
DtUncapped(now, l) == now - l

Dt(now, l) == Min(FrameCap, now - l)

\* the clock after the frame: time += dt * 0.001 happens below the
\* `if (!running) { ...; return; }` guard
ClockAfterUngated(run, t, dt) == t + dt * ClockPerMs

ClockAfter(run, t, dt) == IF run THEN t + dt * ClockPerMs ELSE t

\* how many times one invocation calls requestAnimationFrame(frame)
RafCallsNoReturn(run) == IF run THEN 1 ELSE 2

RafCalls(run) == 1

----------------------------------------------------------------------------
(* The lifecycle API *)

\* toggle(): running = !running
ToggleFlagSet(r) == TRUE

ToggleFlag(r) == ~r

----------------------------------------------------------------------------

Init ==
    /\ width = SurfaceWidth(400)
    /\ height = SurfaceHeight(300)
    /\ \E sc \in Scenes : shapes = sc.shapes /\ time = sc.time
    /\ strokes = InitStrokes
    /\ groups = InitGroups
    /\ running = TRUE
    /\ wall = 0
    /\ last = 0
    /\ pending = 1
    /\ frameStart = << >>
    /\ apiPresent = TRUE
    /\ attached = TRUE
    /\ resizeListening = TRUE
    /\ frameLog = << >>
    /\ calls = << >>
    /\ frames = 0

sceneVars == <<shapes, strokes, groups>>
hostVars == <<apiPresent, attached, resizeListening>>

\* the call history after a call of op that found the running flag at run
Called(op, run) ==
    LET c == [op |-> op, before |-> run]
    IN  IF op \notin {"pause", "toggle"} THEN << >>
        ELSE IF calls # << >> /\ calls[Len(calls)].op = op
             THEN << calls[Len(calls)], c >>
             ELSE << c >>

\* time passes
Tick ==
    \E d \in Steps :
        /\ wall + d <= MaxWall
        /\ wall' = wall + d
        /\ UNCHANGED <<width, height, sceneVars, running, last, time, pending,
                       frameStart, hostVars, frameLog, calls, frames>>

\* The browser begins a frame: it fixes the timestamp that the armed
\* callbacks will receive.  Event handlers of the same frame run between
\* this instant and the callbacks.
BeginFrame ==
    /\ pending > 0
    /\ frameStart = << >>
    /\ frameStart' = << wall >>
    /\ UNCHANGED <<width, height, sceneVars, running, last, time, pending,
                   wall, hostVars, frameLog, calls, frames>>

\* the resize listener
Resize ==
    \E sz \in InnerSizes :
        /\ resizeListening
        /\ width' = SurfaceWidth(sz[1])
        /\ height' = SurfaceHeight(sz[2])
        /\ UNCHANGED <<sceneVars, running, last, time, pending, wall,
                       frameStart, hostVars, frameLog, calls, frames>>

\* frame(now), with now the timestamp of the frame the browser began.
\* Each intermediate value is bound once, in the order the code computes it.
Frame ==
    /\ frameStart # << >>
    /\ pending > 0
    /\ running => frames < MaxFrames
    /\ \E now \in {frameStart[1]} :
       \E dt \in {Dt(now, last)} :
       \E t1 \in {ClockAfter(running, time, dt)} :
       \E gs1 \in {[i \in DOMAIN groups |-> MoveGroup(groups[i])]} :
       \E sorted \in {SortByY(shapes)} :
       \E res \in {[i \in DOMAIN sorted |-> MoveShape(sorted[i], t1, width, height)]} :
           /\ last' = now
           /\ time' = t1
           /\ pending' = (pending - 1) + RafCalls(running)
           /\ IF ~running
              THEN /\ frameLog' = Rafs(RafCalls(running))
                   /\ UNCHANGED <<sceneVars, frames>>
              ELSE /\ groups' = gs1
                   /\ shapes' = [i \in DOMAIN res |-> res[i].moved]
                   /\ frameLog' = DrawSequence(width, height, gs1, strokes, sorted, res)
                                      \o Rafs(RafCalls(running))
                   /\ frames' = frames + 1
                   /\ UNCHANGED strokes
    /\ frameStart' = << >>
    /\ UNCHANGED <<width, height, running, wall, hostVars, calls>>

\* pause()
Pause ==
    /\ running' = FALSE
    /\ calls' = Called("pause", running)
    /\ UNCHANGED <<width, height, sceneVars, last, time, pending, wall,
                   frameStart, hostVars, frameLog, frames>>

\* resume()
Resume ==
    /\ running' = TRUE
    /\ last' = wall
    /\ calls' = Called("resume", running)
    /\ UNCHANGED <<width, height, sceneVars, time, pending, wall,
                   frameStart, hostVars, frameLog, frames>>

ToggleBody ==
    /\ running' = ToggleFlag(running)
    /\ last' = wall
    /\ calls' = Called("toggle", running)
    /\ UNCHANGED <<width, height, sceneVars, time, pending, wall,
                   frameStart, hostVars, frameLog, frames>>

\* toggle(), called on the API object
Toggle == ToggleBody

\* the canvas click listener: window.__kandinskyPainter.toggle()
Click ==
    /\ attached
    /\ apiPresent
    /\ ToggleBody

\* destroy()
Destroy ==
    /\ running' = FALSE
    /\ resizeListening' = FALSE
    /\ attached' = FALSE
    /\ apiPresent' = FALSE
    /\ calls' = Called("destroy", running)
    /\ UNCHANGED <<width, height, sceneVars, last, time, pending, wall,
                   frameStart, frameLog, frames>>

Next ==
    \/ Tick
    \/ BeginFrame
    \/ Resize
    \/ Frame
    \/ Pause
    \/ Resume
    \/ Toggle
    \/ Click
    \/ Destroy

Spec == Init /\ [][Next]_vars

\* The browser runs an armed callback in every frame it renders.
FairSpec == Spec /\ WF_vars(BeginFrame) /\ WF_vars(Frame)

----------------------------------------------------------------------------
(* Observations used by the properties *)

\* this step is an invocation of frame
FrameStep == frameStart # << >> /\ frameStart' = << >>

IsDraw(e) == e.layer # "raf"
IsRaf(e) == e.layer = "raf"
IsShape(e) == e.layer = "shape"

Draws(log) == SelectSeq(log, IsDraw)
ShapeDraws(log) == SelectSeq(log, IsShape)

HasDraw == Draws(frameLog) # << >>

ById(seq, id) == seq[CHOOSE i \in DOMAIN seq : seq[i].id = id]

CountOf(log, layer, id) ==
    Cardinality({i \in DOMAIN log : log[i].layer = layer /\ log[i].id = id})

LayerRank(layer) ==
    CASE layer = "clear" -> 1
      [] layer = "wash" -> 2
      [] layer = "hatch" -> 3
      [] layer = "ring" -> 4
      [] layer = "group" -> 5
      [] layer = "stroke" -> 6
      [] layer = "shape" -> 7
      [] layer = "accent" -> 8
      [] layer = "signature" -> 9
      [] OTHER -> 10

----------------------------------------------------------------------------
(* C1.  After destroy() no step advances the global clock or mutates a     *)
(* shape, stroke or group record, and no frame issues a drawing command,   *)
(* whatever pause()/resume()/toggle() calls are made on the API object.    *)
C1_DestroyFreezes ==
    [][~apiPresent =>
          /\ time' = time
          /\ shapes' = shapes
          /\ strokes' = strokes
          /\ groups' = groups
          /\ (FrameStep => Draws(frameLog') = << >>)]_vars

(* C2.  After destroy() the re-arming chain stops: in every execution      *)
(* there is a point from which, if destroy() has been called, no frame     *)
(* callback is armed and none is about to run.  (destroy() is never        *)
(* undone, so this is [](destroyed => <>[](no callback armed)).)           *)
C2_ChainStops ==
    <>[](~apiPresent => (pending = 0 /\ frameStart = << >>))

(* C3.  A frame invoked while PAUSED issues no drawing command, leaves the *)
(* clock and every shape, stroke and group record unchanged, and arms      *)
(* exactly one callback; of the program's variables only last changes.     *)
C3_PausedFrame ==
    [][(FrameStep /\ ~running) =>
          /\ Draws(frameLog') = << >>
          /\ Len(frameLog') = 1
          /\ pending' = (pending - 1) + 1
          /\ time' = time
          /\ shapes' = shapes
          /\ strokes' = strokes
          /\ groups' = groups
          /\ running' = running
          /\ width' = width
          /\ height' = height]_vars

C3_Witness ==
    /\ frameLog = << RafEntry >>
    /\ ~running
    /\ frameStart = << >>
    /\ last > 0

(* C4.  Every frame sets last to its timestamp, and a RUNNING frame        *)
(* advances the clock by exactly min(40 ms, now - last) in seconds, so by  *)
(* at most 0.040 s.                                                        *)
C4_ClockStep ==
    [][FrameStep =>
          LET now == frameStart[1]
              gap == now - last
          IN  /\ last' = now
              /\ running =>
                    /\ time' - time = (IF gap < 40 THEN gap ELSE 40) * 1000
                    /\ time' - time <= 40000]_vars

\* a RUNNING frame came 45 ms after the start and advanced the clock by 0.040 s
C4_Witness ==
    /\ HasDraw
    /\ frames = 1
    /\ last = 45
    /\ time \in {sc.time + 40000 : sc \in Scenes}

(* C5.  pause() twice in a row leaves the state PAUSED, and toggle() twice *)
(* in a row restores the running flag found by the first of the two.       *)
C5_TwiceInARow ==
    Len(calls) = 2 =>
        /\ calls[2].op = "pause" => ~running
        /\ calls[2].op = "toggle" => running = calls[1].before

\* toggle() was called twice in a row on a paused instance
C5_Witness ==
    /\ Len(calls) = 2
    /\ calls[2].op = "toggle"
    /\ calls[1].before = FALSE

(* C6, as written.  In a RUNNING frame a circle that starts the frame      *)
(* beyond width + r ends it at -r, one that starts below -r ends it at     *)
(* width + r, likewise on y; vx and vy are unchanged; and every circle     *)
(* ends the frame inside the padded surface.                               *)
C6_WrapFromFrameStart ==
    [][(FrameStep /\ running) =>
          \A i \in DOMAIN shapes :
              shapes[i].type = "circle" =>
                  LET s == shapes[i]
                      s1 == ById(shapes', s.id)
                  IN  /\ s.x > width + s.r => s1.x = 0 - s.r
                      /\ s.x < 0 - s.r => s1.x = width + s.r
                      /\ s.y > height + s.r => s1.y = 0 - s.r
                      /\ s.y < 0 - s.r => s1.y = height + s.r
                      /\ s1.vx = s.vx /\ s1.vy = s.vy
                      /\ 0 - s.r <= s1.x /\ s1.x <= width + s.r
                      /\ 0 - s.r <= s1.y /\ s1.y <= height + s.r]_vars

(* C6, amended.  In a RUNNING frame a circle whose center, once the        *)
(* frame's parallax and velocity increments are added, is beyond           *)
(* width + r ends the frame at -r, one then below -r ends at width + r,    *)
(* any other keeps the incremented coordinate, likewise on y; a circle     *)
(* that starts the frame 1 px or more beyond width + r (height + r) is     *)
(* always teleported to -r; vx and vy are unchanged; and every circle ends *)
(* the frame inside the padded surface.                                    *)
C6_WrapAfterMove ==
    [][(FrameStep /\ running) =>
          \A k \in DOMAIN frameLog' :
              (frameLog'[k].layer = "shape"
                  /\ ById(shapes, frameLog'[k].id).type = "circle") =>
                  LET e == frameLog'[k]
                      s == ById(shapes, e.id)
                      s1 == ById(shapes', e.id)
                  IN  /\ e.xMoved > width + s.r => s1.x = 0 - s.r
                      /\ e.xMoved < 0 - s.r => s1.x = width + s.r
                      /\ (0 - s.r <= e.xMoved /\ e.xMoved <= width + s.r)
                             => s1.x = e.xMoved
                      /\ e.yMoved > height + s.r => s1.y = 0 - s.r
                      /\ e.yMoved < 0 - s.r => s1.y = height + s.r
                      /\ (0 - s.r <= e.yMoved /\ e.yMoved <= height + s.r)
                             => s1.y = e.yMoved
                      /\ s.x >= width + s.r + 1000 => (s1.x = 0 - s.r /\ s1.x <= 0)
                      /\ s.y >= height + s.r + 1000 => (s1.y = 0 - s.r /\ s1.y <= 0)
                      /\ s1.vx = s.vx /\ s1.vy = s.vy
                      /\ s1.r = s.r
                      /\ 0 - s.r <= s1.x /\ s1.x <= width + s.r
                      /\ 0 - s.r <= s1.y /\ s1.y <= height + s.r]_vars

\* the most recent frame teleported a circle from beyond the right edge to -r
C6_Witness ==
    \E k \in DOMAIN frameLog :
        /\ frameLog[k].layer = "shape"
        /\ frameLog[k].xMoved > width
        /\ frameLog[k].x < 0
        /\ ById(shapes, frameLog[k].id).x = 0 - ById(shapes, frameLog[k].id).r

(* C7.  The draw commands of a RUNNING frame come in the order clear,      *)
(* wash, hatch, ring, groups, strokes, shapes, accent, signature: no       *)
(* later layer precedes an earlier one, each fixed layer is drawn once,    *)
(* and every group, stroke and shape is drawn exactly once.                *)
C7_DrawOrder ==
    HasDraw =>
        LET d == Draws(frameLog)
        IN  /\ \A i, j \in DOMAIN d :
                  i < j => LayerRank(d[i].layer) <= LayerRank(d[j].layer)
            /\ \A l \in {"clear", "wash", "hatch", "ring", "accent", "signature"} :
                  CountOf(d, l, 0) = 1
            /\ \A i \in DOMAIN groups : CountOf(d, "group", groups[i].id) = 1
            /\ \A i \in DOMAIN strokes : CountOf(d, "stroke", strokes[i].id) = 1
            /\ \A i \in DOMAIN shapes : CountOf(d, "shape", shapes[i].id) = 1
            /\ Len(d) = 6 + Len(groups) + Len(strokes) + Len(shapes)
            /\ \A i \in DOMAIN d : LayerRank(d[i].layer) <= 9

\* a second RUNNING frame has been drawn
C7_Witness ==
    /\ HasDraw
    /\ frames = 2

(* C8, as written.  Of two shapes drawn one after the other in a frame,    *)
(* the first has, when it is drawn, a y no greater than the y the second   *)
(* has when it is drawn.                                                   *)
C8_SortedWhenDrawn ==
    LET d == ShapeDraws(frameLog)
    IN  \A i \in DOMAIN d : i < Len(d) => d[i].y <= d[i + 1].y

(* C8, amended.  In every RUNNING frame the shapes are drawn in ascending  *)
(* order of the vertical position each had when the sort ran, that is      *)
(* before the frame's parallax, drift and wrap-around updates.             *)
C8_SortedAtSort ==
    LET d == ShapeDraws(frameLog)
    IN  \A i \in DOMAIN d : i < Len(d) => d[i].ySort <= d[i + 1].ySort

\* a frame drew a shape lower on the surface before one higher up,
\* because the first moved after the sort
C8_Witness ==
    LET d == ShapeDraws(frameLog)
    IN  \E i \in DOMAIN d :
            /\ i < Len(d)
            /\ d[i].y > d[i + 1].y
            /\ d[i].ySort <= d[i + 1].ySort

(* C9.  At most one frame callback is armed at any time: a frame arms      *)
(* exactly one successor, as the last thing it does, and no lifecycle      *)
(* call arms one.                                                          *)
C9_NoOverlap ==
    /\ pending <= 1
    /\ frameLog # << >> =>
          /\ IsRaf(frameLog[Len(frameLog)])
          /\ Cardinality({i \in DOMAIN frameLog : IsRaf(frameLog[i])}) = 1

\* a frame has drawn, a lifecycle call was made, and the next frame has begun
C9_Witness ==
    /\ pending = 1
    /\ HasDraw
    /\ calls # << >>
    /\ frameStart # << >>

(* C10.  The global animation clock never decreases.                       *)
C10_ClockMonotone == [][time' >= time]_vars

====
